---- MODULE Spec2Model ----
(***************************************************************************)
(* Download orchestration of the youtube-download service.                 *)
(*                                                                         *)
(* A progressive request is modelled by the ReadableStream controller it   *)
(* writes to, the child processes it spawns with exec(), the handlers      *)
(* attached to each child (stdout data, stderr data, close, error) and the *)
(* temp file <tempFile>.<ext> all attempts of the request share; Spec is   *)
(* the supervisor and the public entry, PublicSpec the public entry alone  *)
(* with fairness, CancelSpec the public entry with a consumer that may     *)
(* disconnect.                                                             *)
(*                                                                         *)
(* A buffered request (downloadVideo) is modelled by the position of the   *)
(* call at its awaits, its locals and the files under its temp stem;       *)
(* BufferedSpec is its specification, DirectSpec adds the controller's     *)
(* handleDirectDownload that answers the returned result.                  *)
(*                                                                         *)
(* TempSpec is the naming of temp path stems by requests in flight,        *)
(* ResponseSpec the controller's pump from the stream to the response,     *)
(* ParserSpec the parsers of the tool's output on text (parseFileSize,     *)
(* parseProgressOutput, the stderr classification), and CommandSpec the    *)
(* command builders with the shell that exec() hands the command to.       *)
(*                                                                         *)
(* The external tool is the environment.  tool[s] fixes how the tool       *)
(* behaves when it is invoked with the command line of strategy s.         *)
(***************************************************************************)
EXTENDS Integers, Sequences, FiniteSets, TLC

\* ---------------------------------------------------------------- bounds
\* stdout chunks delivered over the whole request
MaxStdout == 1
\* child processes spawned for one request
MaxProcs == 3
\* characters the URL resolver writes to its standard output
MaxOut == 3
\* milliseconds the clock runs through
MaxClock == 2
\* requests in flight at the same time
MaxRequests == 2
\* hex digits of a UUID, and how many of them substring(0, 8) keeps
UuidLen == 3
PrefixLen == 2
\* characters of a URL
MaxUrl == 4
\* symbols of a chunk of the tool's output
MaxChunk == 5
\* words of a chunk of the tool's error output
MaxWords == 3
\* symbols of an output text that arrives in two chunks
MaxText == 3

\* ------------------------------------------------------------ vocabulary
Strategies == {"primary", "android", "ios"}

\* How the tool behaves for one command line:
\*   ok       exits 0 after writing <tempFile>.<ext>
\*   nofile   exits 0 without writing the output file
\*   fail     writes a fatal message to stderr and exits 1
\*   hang     never exits on its own (the exec timeout kills it)
\*   nospawn  the process cannot be spawned ('error' event, then 'close')
Behaviours == {"ok", "nofile", "fail", "hang", "nospawn"}

\* A stderr chunk, reduced to the tokens the classification looks for:
\* error   - the text contains "error" in some letter case
\* warning - "none", or "lower" ('warning'), or "upper" ('WARNING')
FatalChunk == [error |-> TRUE, warning |-> "none"]
WarnChunk == [error |-> FALSE, warning |-> "upper"]
StderrChunks == {FatalChunk, WarnChunk}

\* A stdout chunk is a sequence of lines, each reduced to the markers
\* parseProgressOutput looks for: "download" ('[download]' and '%'),
\* "merge" ('[ffmpeg]' or 'Merging'), "both", "other".
StdoutChunks == {<<"download", "other", "merge">>}

VARIABLES
    entry,      \* "none" | "public" | "supervisor": how the request started
    tool,       \* [Strategies -> Behaviours], the environment
    procs,      \* sequence of child processes in spawn order
    events,     \* chunks enqueued on the stream controller, in order
    closed,     \* the stream controller has been closed
    fileExists, \* <tempFile>.<ext> exists on disk
    outLeft,    \* stdout chunks still to be delivered
    cancelled,  \* the consumer has cancelled the stream's reader
    buf,        \* the buffered request: position and locals of downloadVideo
    res,        \* the HTTP response of a progressive request
    call,       \* a call of one of the pure functions: its input and its result
    temp        \* the clock and the temp path stems of the requests in flight

vars == <<entry, tool, procs, events, closed, fileExists, outLeft, cancelled, buf, res, call, temp>>

\* State of the stream as the handlers see it; handlers are written as
\* functions on this record and the actions store the result.
Stream == [procs |-> procs, events |-> events, closed |-> closed]

\* The progress member of an update as the source writes it: 0 for start, 95
\* for processing, 100 for complete; empty for error and info, which have
\* none, and for progress, whose value is parsed from the line.
progressOf(type) ==
    IF type = "start" THEN {0}
    ELSE IF type = "processing" THEN {95}
    ELSE IF type = "complete" THEN {100}
    ELSE {}

Ev(type, by, why) ==
    [type |-> type, by |-> by, why |-> why, progress |-> progressOf(type)]

\* ------------------------------------------------------------- helpers
\* const child = exec(command, { timeout: 300000 }); let controllerClosed = false
\* the temp path stem of the request
Stem == "/tmp/video_1_ab"

\* The tempFile of a process is the one its caller passes on: the stem of
\* the request for handleProgressiveDownload and for the first attempt, and
\* the caller's own tempFile for every further attempt.
NewChild(strategy, via, parent) ==
    [strategy |-> strategy,
     tempFile |-> Stem,           \* the stem its command writes to and its close handler reads
     via |-> via,                 \* "handle" | "attempt": who attached the handlers
     parent |-> parent,           \* index of the attempt whose handler spawned it, 0 if none
     os |-> IF tool[strategy] = "nospawn" THEN "nospawn" ELSE "running",
     code |-> "none",             \* exit status reported with 'close'
     killed |-> FALSE,            \* child.kill() has been called
     timedOut |-> FALSE,          \* the exec timeout has fired
     errored |-> FALSE,           \* 'error' has been emitted
     fatals |-> 0,                \* fatal stderr chunks handled
     controllerClosed |-> FALSE,  \* the closure's flag
     pc |-> "open",               \* position of the close handler
     missing |-> FALSE,           \* close handler saw exit 0 without the file
     statErr |-> FALSE,           \* close handler's stat() threw
     fsFailed |-> FALSE,          \* ... although the file was there
     unlinked |-> FALSE]          \* close handler called unlink

safeEnqueue(s, p, ev) ==
    IF s.procs[p].controllerClosed THEN s
    ELSE IF s.closed
         THEN [s EXCEPT !.procs[p].controllerClosed = TRUE]
         ELSE [s EXCEPT !.events = Append(@, ev)]

\* controller.close() inside try/catch: a second close throws and is swallowed
controllerClose(s) == [s EXCEPT !.closed = TRUE]

\* child.kill(): SIGTERM; a process that is already gone is left as it is
kill(s, p) ==
    IF s.procs[p].os = "running"
    THEN [s EXCEPT !.procs[p].os = "exited", !.procs[p].code = "null",
                   !.procs[p].killed = TRUE]
    ELSE [s EXCEPT !.procs[p].killed = TRUE]

Store(s) ==
    /\ procs' = s.procs
    /\ events' = s.events
    /\ closed' = s.closed


\* ------------------------------------------------ pure parts of handlers
\* errorOutput.toLowerCase().includes('error') && !errorOutput.includes('warning')
isCriticalError(chunk) == chunk.error /\ chunk.warning # "lower"

\* parseProgressOutput, one line: the events it hands to safeEnqueue
parseLine(line) ==
    (IF line \in {"download", "both"} THEN <<"progress">> ELSE <<>>)
    \o (IF line \in {"merge", "both"} THEN <<"processing">> ELSE <<>>)

RECURSIVE parseProgressOutput(_, _, _)
parseProgressOutput(s, p, lines) ==
    IF lines = <<>> THEN s
    ELSE LET evs == parseLine(Head(lines))
             s1 == IF Len(evs) >= 1 THEN safeEnqueue(s, p, Ev(evs[1], p, "stdout")) ELSE s
             s2 == IF Len(evs) >= 2 THEN safeEnqueue(s1, p, Ev(evs[2], p, "stdout")) ELSE s1
         IN parseProgressOutput(s2, p, Tail(lines))

\* attemptProgressiveDownload up to the point where the handlers are attached:
\* exec the command of the strategy and enqueue 'start' through the new closure
attemptProgressiveDownload(s, strategy, parent) ==
    LET n == Len(s.procs) + 1
        s1 == [s EXCEPT !.procs = Append(@, NewChild(strategy, "attempt", parent))]
    IN safeEnqueue(s1, n, Ev("start", n, "start"))

\* variant: the process is spawned without an initial update
handleProgressiveDownloadSilent(s) ==
    [s EXCEPT !.procs = Append(@, NewChild("primary", "handle", 0))]

\* the same for the single-command handleProgressiveDownload
handleProgressiveDownload(s) ==
    LET n == Len(s.procs) + 1
        s1 == [s EXCEPT !.procs = Append(@, NewChild("primary", "handle", 0))]
    IN safeEnqueue(s1, n, Ev("start", n, "start"))

\* child.stderr.on('data') of attemptProgressiveDownload
attemptStderr(s, p, chunk) ==
    LET strategy == s.procs[p].strategy IN
    IF ~isCriticalError(chunk) THEN s
    ELSE LET s0 == [s EXCEPT !.procs[p].fatals = @ + 1] IN
         IF strategy = "primary"
         THEN attemptProgressiveDownload(
                  kill(safeEnqueue(s0, p, Ev("info", p, "stderr")), p), "android", p)
         ELSE IF strategy = "android"
         THEN attemptProgressiveDownload(
                  kill(safeEnqueue(s0, p, Ev("info", p, "stderr")), p), "ios", p)
         ELSE safeEnqueue(s0, p, Ev("error", p, "stderr"))

\* child.stderr.on('data') of handleProgressiveDownload
handleStderr(s, p, chunk) ==
    IF ~isCriticalError(chunk) THEN s
    ELSE safeEnqueue([s EXCEPT !.procs[p].fatals = @ + 1], p, Ev("error", p, "stderr"))

\* if (!controllerClosed) { try { controller.close(); controllerClosed = true } catch {} }
closeUnlessClosed(s, p) ==
    IF s.procs[p].controllerClosed \/ s.closed THEN s
    ELSE [s EXCEPT !.closed = TRUE, !.procs[p].controllerClosed = TRUE]

\* child.on('error') of attemptProgressiveDownload
attemptError(s, p) ==
    LET strategy == s.procs[p].strategy
        s0 == [s EXCEPT !.procs[p].errored = TRUE] IN
    IF strategy = "primary"
    THEN attemptProgressiveDownload(safeEnqueue(s0, p, Ev("info", p, "spawn")), "android", p)
    ELSE IF strategy = "android"
    THEN attemptProgressiveDownload(safeEnqueue(s0, p, Ev("info", p, "spawn")), "ios", p)
    ELSE closeUnlessClosed(safeEnqueue(s0, p, Ev("error", p, "spawn")), p)

\* child.on('error') of handleProgressiveDownload
handleError(s, p) ==
    closeUnlessClosed(
        safeEnqueue([s EXCEPT !.procs[p].errored = TRUE], p, Ev("error", p, "spawn")), p)

\* variant: handleProgressComplete returns without controller.close()
finishCloseLeavesOpen(s, p) ==
    [s EXCEPT !.procs[p].controllerClosed = TRUE, !.procs[p].pc = "done"]

\* tail of the close handler: controller.close() in handleProgressComplete,
\* then controllerClosed = true in the listener
finishClose(s, p) ==
    [controllerClose(s) EXCEPT !.procs[p].controllerClosed = TRUE, !.procs[p].pc = "done"]

\* handleProgressComplete up to its first await
handleProgressComplete(s, p, exists) ==
    IF s.procs[p].code = "0"
    THEN IF exists
         THEN [s EXCEPT !.procs[p].pc = "stat"]
         ELSE finishClose(
                  safeEnqueue([s EXCEPT !.procs[p].missing = TRUE], p, Ev("error", p, "file")), p)
    ELSE finishClose(safeEnqueue(s, p, Ev("error", p, "exit")), p)

\* handleProgressComplete after await stat(downloadedFile)
afterStat(s, p, statOk, exists) ==
    IF statOk
    THEN [safeEnqueue(s, p, Ev("complete", p, "file")) EXCEPT !.procs[p].pc = "unlink"]
    ELSE finishClose(
             safeEnqueue([s EXCEPT !.procs[p].statErr = TRUE, !.procs[p].fsFailed = exists],
                         p, Ev("error", p, "file")), p)

\* variant: the failure of unlink is thrown to the caller
cleanupFileThrows(exists, unlinkOk) ==
    [exists |-> exists /\ ~unlinkOk,
     warned |-> FALSE,
     threw |-> ~unlinkOk]

\* cleanupFile: try { await unlink(filePath); log } catch { warn }.
\* exists - the path is on disk; unlinkOk - unlink succeeds.  The result tells
\* what is left on disk, whether the warning was logged and whether the call
\* threw to its caller.
cleanupFile(exists, unlinkOk) ==
    [exists |-> exists /\ ~unlinkOk,
     warned |-> ~unlinkOk,
     threw |-> FALSE]

\* handleProgressComplete after await this.cleanupFile(downloadedFile); the
\* await is inside the try block, so a throw would reach the catch
afterCleanup(s, p, r) ==
    LET s0 == [s EXCEPT !.procs[p].unlinked = TRUE] IN
    IF r.threw
    THEN finishClose(safeEnqueue(s0, p, Ev("error", p, "file")), p)
    ELSE finishClose(s0, p)

\* =====================================================================
\* The buffered request: downloadVideo
\* =====================================================================
\* Files the tool can leave under the request's temp stem: the merged video,
\* the extracted audio, a partial download.
Files == {"mp4", "mp3", "part"}
\* byte sizes of the output file
Sizes == {0, 1, 1024}

\* Characters of the resolver's standard output: two URL characters, a
\* blank, a line feed.
Whitespace == {"SP", "NL"}
Chars == {"a", "b"} \cup Whitespace
Strings == UNION {[1..n -> Chars] : n \in 0..MaxOut}

\* What downloadVideo resolves to; an absent member is the empty set.
NoResult == [buffer |-> {}, metadata |-> {}, fallback |-> {}, error |-> {}]

Idle ==
    [pc |-> "idle",            \* the await downloadVideo is suspended at
     audioOnly |-> FALSE,      \* the request
     dl |-> "exits",           \* the tool, download command: "exits" | "hangs"
     resolver |-> "exits",     \* the tool, --get-url command: "exits" | "hangs"
     outcome |-> "none",       \* how the download process ended
     wrote |-> {},             \* files the download process left behind
     disk |-> {},              \* files under the temp stem
     size |-> 0,               \* byte size of <tempFile>.<ext> when on disk
     fileBuffer |-> {},        \* const fileBuffer
     stats |-> {},             \* const stats (stats.size)
     unlinks |-> 0,            \* calls of unlink
     readBefore |-> TRUE,      \* every unlink was called with fileBuffer read
     readFailed |-> FALSE,     \* readFile failed
     statFailed |-> FALSE,     \* stat failed
     unlinkFailed |-> FALSE,   \* unlink failed
     warned |-> FALSE,         \* logger.warn('Failed to cleanup file ...')
     downloadError |-> "none", \* downloadError.message
     fallbackError |-> "none", \* fallbackError.message
     resolved |-> "none",      \* how the resolver process ended
     stdout |-> <<>>,          \* what the resolver printed
     result |-> NoResult]

\* const ext = audioOnly ? 'mp3' : 'mp4'
ext(audioOnly) == IF audioOnly THEN "mp3" ELSE "mp4"

\* variant: the two content types the other way round
contentTypeSwapped(audioOnly) == IF audioOnly THEN "video/mp4" ELSE "audio/mpeg"

\* contentType: audioOnly ? 'audio/mpeg' : 'video/mp4'
contentType(audioOnly) == IF audioOnly THEN "audio/mpeg" ELSE "video/mp4"

\* String.prototype.trim
RECURSIVE trimStart(_)
trimStart(str) ==
    IF str # <<>> /\ Head(str) \in Whitespace THEN trimStart(Tail(str)) ELSE str

RECURSIVE trimEnd(_)
trimEnd(str) ==
    IF str # <<>> /\ str[Len(str)] \in Whitespace
    THEN trimEnd(SubSeq(str, 1, Len(str) - 1))
    ELSE str

trim(str) == trimEnd(trimStart(str))

\* String.prototype.split('\n'): the empty string gives one empty piece
RECURSIVE split(_)
split(str) ==
    IF \A i \in DOMAIN str : str[i] # "NL" THEN <<str>>
    ELSE LET i == CHOOSE k \in DOMAIN str :
                      str[k] = "NL" /\ \A j \in 1..(k - 1) : str[j] # "NL"
         IN <<SubSeq(str, 1, i - 1)>> \o split(SubSeq(str, i + 1, Len(str)))

\* .filter(url => url.length > 0)
isUrl(url) == Len(url) > 0
\* variant: the pieces are not filtered
filterNothing(pieces) == pieces
filter(pieces) == SelectSeq(pieces, isUrl)

\* getFallbackUrls once execAsync has resolved with stdout
getFallbackUrls(stdout, audioOnly) ==
    [success |-> TRUE,
     directDownload |-> FALSE,
     urls |-> filter(split(trim(stdout))),
     instruction |-> IF audioOnly THEN "Audio URL" ELSE "Video URLs (may need merging)"]

\* downloadVideo up to await execAsync(command, { timeout: 120000 })
downloadVideo(b, audioOnly, dl, resolver) ==
    [b EXCEPT !.pc = "exec", !.audioOnly = audioOnly, !.dl = dl, !.resolver = resolver]

\* catch (downloadError): log, then getFallbackUrls up to its await execAsync
catchDownloadError(b, message) ==
    [b EXCEPT !.downloadError = message, !.pc = "fallback"]

\* execAsync resolved (exit status 0): existsSync, then await readFile
execResolved(b) ==
    IF ext(b.audioOnly) \in b.disk
    THEN [b EXCEPT !.pc = "read"]
    ELSE catchDownloadError(b, "Downloaded file not found after successful command execution")

\* variant: a rejection of execAsync is treated like its resolution
execRejectedIgnored(b) == execResolved(b)

\* execAsync rejected: non-zero exit status, or killed by the timeout
execRejected(b) == catchDownloadError(b, "Command failed")

\* await readFile(downloadedFile) settled, then await stat
readFileSettled(b, ok) ==
    IF ok
    THEN [b EXCEPT !.fileBuffer = {b.size}, !.pc = "stat"]
    ELSE catchDownloadError(b, "readFile failed")

\* await stat(downloadedFile) settled, then cleanupFile up to its await unlink
statSettled(b, ok) ==
    IF ok
    THEN [b EXCEPT !.stats = {b.size}, !.pc = "cleanup", !.unlinks = @ + 1,
                   !.readBefore = @ /\ b.fileBuffer # {}]
    ELSE catchDownloadError(b, "stat failed")

\* await this.cleanupFile(downloadedFile) settled with r, then the return of
\* { buffer, metadata }; the await is inside the try block
cleanupSettled(b, r) ==
    LET b0 == [b EXCEPT !.disk = IF r.exists THEN @ ELSE @ \ {ext(b.audioOnly)},
                        !.warned = r.warned] IN
    IF r.threw
    THEN catchDownloadError(b0, "unlink failed")
    ELSE [b0 EXCEPT !.pc = "returned",
                    !.result = [NoResult EXCEPT
                        !.buffer = b.fileBuffer,
                        !.metadata = {[success |-> TRUE,
                                       fileSize |-> CHOOSE n \in b.stats : TRUE,
                                       contentType |-> contentType(b.audioOnly)]}]]

\* variant: the buffer read before the failure is returned with the fallback
fallbackResolvedWithBuffer(b, stdout) ==
    [b EXCEPT !.pc = "returned", !.stdout = stdout,
              !.result = [NoResult EXCEPT
                  !.buffer = b.fileBuffer,
                  !.fallback = {getFallbackUrls(stdout, b.audioOnly)}]]

\* getFallbackUrls resolved: return { fallback: fallbackResponse }
fallbackResolved(b, stdout) ==
    [b EXCEPT !.pc = "returned", !.stdout = stdout,
              !.result = [NoResult EXCEPT
                  !.fallback = {getFallbackUrls(stdout, b.audioOnly)}]]

\* variant: the error response reports the fallback's failure
fallbackRejectedWithOwnMessage(b) ==
    [b EXCEPT !.pc = "returned", !.fallbackError = "URL extraction failed",
              !.result = [NoResult EXCEPT
                  !.error = {[error |-> "Download failed",
                              details |-> "URL extraction failed",
                              suggestion |-> "Try a different quality or check if yt-dlp is installed and updated"]}]]

\* getFallbackUrls threw: return { error: errorResponse }
fallbackRejected(b) ==
    [b EXCEPT !.pc = "returned", !.fallbackError = "URL extraction failed",
              !.result = [NoResult EXCEPT
                  !.error = {[error |-> "Download failed",
                              details |-> b.downloadError,
                              suggestion |-> "Try a different quality or check if yt-dlp is installed and updated"]}]]

\* The response before anything is written to it.
NoResponse == [written |-> <<>>, ended |-> FALSE]

\* No pure function has been called.
NoCall == [fn |-> "none"]

\* The clock at its start, no request in flight.
NoTemp == [now |-> 0, requests |-> <<>>]

\* ---------------------------------------------------------------- Init
\* A command line is only run after the previous strategy failed to start or
\* reported a fatal error, so the behaviour of the later ones is fixed to "ok"
\* where they cannot be reached.
Retried == {"fail", "nospawn"}
Tools ==
    {t \in [Strategies -> Behaviours] :
        /\ t["primary"] \notin Retried => t["android"] = "ok"
        /\ t["android"] \notin Retried => t["ios"] = "ok"}

Init ==
    /\ entry = "none"
    /\ tool \in Tools
    /\ procs = <<>>
    /\ events = <<>>
    /\ closed = FALSE
    /\ fileExists = FALSE
    /\ outLeft = MaxStdout
    /\ cancelled = FALSE
    /\ buf = Idle
    /\ res = NoResponse
    /\ call = NoCall
    /\ temp = NoTemp

\* -------------------------------------------------------------- actions
\* createProgressiveDownloadStream: the stream's start callback runs
\* handleProgressiveDownload
CreateProgressiveDownloadStream ==
    /\ entry = "none"
    /\ entry' = "public"
    /\ Store(handleProgressiveDownload(Stream))
    /\ UNCHANGED <<tool, fileExists, outLeft, cancelled, buf, res, call, temp>>

\* the Process Supervisor invoked on its own: attemptProgressiveDownload(..., 'primary')
StartSupervisor ==
    /\ entry = "none"
    /\ entry' = "supervisor"
    /\ Store(attemptProgressiveDownload(Stream, "primary", 0))
    /\ UNCHANGED <<tool, fileExists, outLeft, cancelled, buf, res, call, temp>>

Open(p) == procs[p].pc = "open"

\* stdout 'data': output written before the process went away is still
\* delivered until 'close'
StdoutData(p, chunk) ==
    /\ Open(p) /\ procs[p].os # "nospawn"
    /\ outLeft > 0
    /\ outLeft' = outLeft - 1
    /\ Store(parseProgressOutput(Stream, p, chunk))
    /\ UNCHANGED <<entry, tool, fileExists, cancelled, buf, res, call, temp>>

\* stderr 'data'.  A failing tool writes fatal messages; they may arrive in
\* several chunks, also after child.kill().  Any tool may write warnings.
StderrData(p, chunk) ==
    /\ Open(p) /\ procs[p].os # "nospawn"
    /\ isCriticalError(chunk) =>
          /\ tool[procs[p].strategy] = "fail"
          /\ IF procs[p].via = "attempt" /\ procs[p].strategy # "ios"
             THEN Len(procs) < MaxProcs
             ELSE procs[p].fatals = 0
    /\ Store(IF procs[p].via = "attempt"
             THEN attemptStderr(Stream, p, chunk)
             ELSE handleStderr(Stream, p, chunk))
    /\ UNCHANGED <<entry, tool, fileExists, outLeft, cancelled, buf, res, call, temp>>

\* exec's timeout timer fires on a process that is still running: it is killed
Timeout(p) ==
    /\ procs[p].os = "running"
    /\ tool[procs[p].strategy] = "hang"
    /\ procs' = [procs EXCEPT ![p].os = "exited", ![p].code = "null", ![p].timedOut = TRUE]
    /\ UNCHANGED <<entry, tool, events, closed, fileExists, outLeft, cancelled, buf, res, call, temp>>

\* 'error': the process could not be spawned
ChildError(p) ==
    /\ Open(p) /\ procs[p].os = "nospawn" /\ ~procs[p].errored
    /\ procs[p].via = "attempt" /\ procs[p].strategy # "ios" => Len(procs) < MaxProcs
    /\ Store([(IF procs[p].via = "attempt" THEN attemptError(Stream, p) ELSE handleError(Stream, p))
                EXCEPT !.procs[p].code = "-2"])
    /\ UNCHANGED <<entry, tool, fileExists, outLeft, cancelled, buf, res, call, temp>>

\* A working tool writes <tempFile>.<ext> and exits 0; 'close' follows later.
ProcessExit(p) ==
    /\ procs[p].os = "running"
    /\ tool[procs[p].strategy] = "ok"
    /\ procs' = [procs EXCEPT ![p].os = "exited", ![p].code = "0"]
    /\ fileExists' = TRUE
    /\ UNCHANGED <<entry, tool, events, closed, outLeft, cancelled, buf, res, call, temp>>

\* The exit status of a tool process that ends without writing a file; it
\* has no effect the service can see before 'close'.
exit(s, p) ==
    IF s.procs[p].os = "running"
    THEN [s EXCEPT !.procs[p].os = "exited",
                   !.procs[p].code = IF tool[s.procs[p].strategy] = "fail" THEN "1" ELSE "0"]
    ELSE s

\* 'close': the process is gone (it ended on its own, was killed, or never
\* started) and its stdio has ended.  A failing tool has written its fatal
\* message before it ends, so that chunk is delivered first.
ChildClose(p) ==
    /\ Open(p)
    /\ \/ procs[p].os = "running" /\ tool[procs[p].strategy] \in {"nofile", "fail"}
       \/ procs[p].os = "exited"
       \/ procs[p].os = "nospawn" /\ procs[p].errored
    /\ tool[procs[p].strategy] = "fail" => procs[p].fatals > 0
    /\ Store(handleProgressComplete(exit(Stream, p), p, fileExists))
    /\ UNCHANGED <<entry, tool, fileExists, outLeft, cancelled, buf, res, call, temp>>

\* await stat(downloadedFile) settles
StatSettles(p, statOk) ==
    /\ procs[p].pc = "stat"
    /\ statOk => fileExists
    /\ Store(afterStat(Stream, p, statOk, fileExists))
    /\ UNCHANGED <<entry, tool, fileExists, outLeft, cancelled, buf, res, call, temp>>

\* await this.cleanupFile(downloadedFile) settles; unlink fails when the path
\* is gone and may fail for any other reason
CleanupSettles(p, unlinkOk) ==
    /\ procs[p].pc = "unlink"
    /\ unlinkOk => fileExists
    /\ fileExists' = cleanupFile(fileExists, unlinkOk).exists
    /\ Store(afterCleanup(Stream, p, cleanupFile(fileExists, unlinkOk)))
    /\ UNCHANGED <<entry, tool, outLeft, cancelled, buf, res, call, temp>>

Next ==
    \/ CreateProgressiveDownloadStream
    \/ StartSupervisor
    \/ \E p \in DOMAIN procs : \E chunk \in StdoutChunks : StdoutData(p, chunk)
    \/ \E p \in DOMAIN procs : \E chunk \in StderrChunks : StderrData(p, chunk)
    \/ \E p \in DOMAIN procs : ProcessExit(p)
    \/ \E p \in DOMAIN procs : Timeout(p)
    \/ \E p \in DOMAIN procs : ChildError(p)
    \/ \E p \in DOMAIN procs : ChildClose(p)
    \/ \E p \in DOMAIN procs : \E statOk \in BOOLEAN : StatSettles(p, statOk)
    \/ \E p \in DOMAIN procs : \E unlinkOk \in BOOLEAN : CleanupSettles(p, unlinkOk)

Spec == Init /\ [][Next]_vars

\* ------------------------------------- the public progressive request
\* What a stream obtained from createProgressiveDownloadStream can do: the
\* single-command handlers only.
PublicNext ==
    \/ CreateProgressiveDownloadStream
    \/ \E p \in DOMAIN procs : \E chunk \in StdoutChunks : StdoutData(p, chunk)
    \/ \E p \in DOMAIN procs : \E chunk \in StderrChunks : StderrData(p, chunk)
    \/ \E p \in DOMAIN procs : ProcessExit(p)
    \/ \E p \in DOMAIN procs : Timeout(p)
    \/ \E p \in DOMAIN procs : ChildError(p)
    \/ \E p \in DOMAIN procs : ChildClose(p)
    \/ \E p \in DOMAIN procs : \E statOk \in BOOLEAN : StatSettles(p, statOk)
    \/ \E p \in DOMAIN procs : \E unlinkOk \in BOOLEAN : CleanupSettles(p, unlinkOk)

\* The request is made; a failing tool writes its message before it ends;
\* exec's timer fires; a process that has ended, was killed or could not be
\* spawned delivers 'error' and 'close'; a tool that exits on its own does
\* so; stat and unlink settle.
PublicFairness ==
    /\ WF_vars(CreateProgressiveDownloadStream)
    /\ WF_vars(\E p \in DOMAIN procs : \E chunk \in StderrChunks : StderrData(p, chunk))
    /\ WF_vars(\E p \in DOMAIN procs : ProcessExit(p))
    /\ WF_vars(\E p \in DOMAIN procs : Timeout(p))
    /\ WF_vars(\E p \in DOMAIN procs : ChildError(p))
    /\ WF_vars(\E p \in DOMAIN procs : ChildClose(p))
    /\ WF_vars(\E p \in DOMAIN procs : \E statOk \in BOOLEAN : StatSettles(p, statOk))
    /\ WF_vars(\E p \in DOMAIN procs : \E unlinkOk \in BOOLEAN : CleanupSettles(p, unlinkOk))

PublicSpec == Init /\ [][PublicNext]_vars /\ PublicFairness

\* ------------------------------------------------ consumer disconnect
\* res.on("close", () => reader.cancel()): the stream is closed from the
\* consumer's side; the stream was built with a start callback only, so
\* nothing else runs.
Cancel ==
    /\ entry = "public"
    /\ ~closed
    /\ closed' = TRUE
    /\ cancelled' = TRUE
    /\ UNCHANGED <<entry, tool, procs, events, fileExists, outLeft, buf, res, call, temp>>

CancelNext ==
    \/ PublicNext
    \/ Cancel

CancelSpec == Init /\ [][CancelNext]_vars

\* ------------------------------------------------ the buffered request
pvars == <<entry, tool, procs, events, closed, fileExists, outLeft, cancelled, res, call, temp>>

BufferedInit ==
    /\ entry = "none"
    /\ tool = [s \in Strategies |-> "ok"]
    /\ procs = <<>>
    /\ events = <<>>
    /\ closed = FALSE
    /\ fileExists = FALSE
    /\ outLeft = MaxStdout
    /\ cancelled = FALSE
    /\ buf = Idle
    /\ res = NoResponse
    /\ call = NoCall
    /\ temp = NoTemp

\* downloadVideo is called
DownloadVideo ==
    /\ buf.pc = "idle"
    /\ \E audioOnly \in BOOLEAN, dl \in {"exits", "hangs"}, resolver \in {"exits", "hangs"} :
           buf' = downloadVideo(buf, audioOnly, dl, resolver)
    /\ UNCHANGED pvars

\* await execAsync(command, { timeout: 120000 }) settles.  The process ended
\* with status 0 or 1, or did not end and was killed by the timer; in each
\* case it may have left files under the temp stem.
ExecSettles(outcome, wrote, size) ==
    /\ buf.pc = "exec"
    /\ (outcome = "timeout") <=> (buf.dl = "hangs")
    /\ wrote \cap {"mp4", "mp3"} = {} => size = 0
    /\ LET b == [buf EXCEPT !.outcome = outcome, !.wrote = wrote, !.disk = wrote,
                            !.size = size]
       IN buf' = IF outcome = "exit0" THEN execResolved(b) ELSE execRejected(b)
    /\ UNCHANGED pvars

\* await readFile(downloadedFile) settles
ReadFileSettles(ok) ==
    /\ buf.pc = "read"
    /\ ok => ext(buf.audioOnly) \in buf.disk
    /\ buf' = readFileSettled([buf EXCEPT !.readFailed = ~ok], ok)
    /\ UNCHANGED pvars

\* await stat(downloadedFile) settles
StatFileSettles(ok) ==
    /\ buf.pc = "stat"
    /\ ok => ext(buf.audioOnly) \in buf.disk
    /\ buf' = statSettled([buf EXCEPT !.statFailed = ~ok], ok)
    /\ UNCHANGED pvars

\* await this.cleanupFile(downloadedFile) settles.  The temp directory is
\* shared: the path may be gone by the time unlink runs (gone); unlink fails
\* then, and may fail for any other reason.
CleanupFileSettles(gone, unlinkOk) ==
    /\ buf.pc = "cleanup"
    /\ LET b == [buf EXCEPT !.disk = IF gone THEN @ \ {ext(buf.audioOnly)} ELSE @]
           exists == ext(buf.audioOnly) \in b.disk
       IN /\ unlinkOk => exists
          /\ buf' = [cleanupSettled(b, cleanupFile(exists, unlinkOk))
                        EXCEPT !.unlinkFailed = ~unlinkOk]
    /\ UNCHANGED pvars

\* await execAsync(`yt-dlp ... --get-url ...`) resolves: exit status 0.  The
\* call passes no timeout, so a resolver that does not exit never settles.
GetFallbackUrlsResolves(stdout) ==
    /\ buf.pc = "fallback"
    /\ buf.resolver = "exits"
    /\ buf' = fallbackResolved([buf EXCEPT !.resolved = "exit0"], stdout)
    /\ UNCHANGED pvars

\* ... rejects: non-zero exit status
GetFallbackUrlsRejects ==
    /\ buf.pc = "fallback"
    /\ buf.resolver = "exits"
    /\ buf' = fallbackRejected([buf EXCEPT !.resolved = "exit1"])
    /\ UNCHANGED pvars

BufferedNext ==
    \/ DownloadVideo
    \/ \E outcome \in {"exit0", "exit1", "timeout"}, wrote \in SUBSET Files, size \in Sizes :
           ExecSettles(outcome, wrote, size)
    \/ \E ok \in BOOLEAN : ReadFileSettles(ok)
    \/ \E ok \in BOOLEAN : StatFileSettles(ok)
    \/ \E gone \in BOOLEAN, unlinkOk \in BOOLEAN : CleanupFileSettles(gone, unlinkOk)
    \/ \E stdout \in Strings : GetFallbackUrlsResolves(stdout)
    \/ GetFallbackUrlsRejects

BufferedSpec == BufferedInit /\ [][BufferedNext]_vars

\* ------------------------------------- the controller's direct download
\* A member of the result is truthy when it is present: a Buffer and the
\* response objects are objects, whatever they hold.
truthy(member) == member # {}

\* handleDirectDownload after await downloadVideo(query): the branch taken
handleDirectDownload(result) ==
    IF truthy(result.buffer) /\ truthy(result.metadata) THEN "file"
    ELSE IF truthy(result.fallback) THEN "fallback"
    ELSE IF truthy(result.error) THEN "error"
    ELSE "unexpected"

\* the controller writes the response of the branch and ends it
HandleDirectDownload ==
    /\ buf.pc = "returned"
    /\ ~res.ended
    /\ res' = [written |-> <<handleDirectDownload(buf.result)>>, ended |-> TRUE]
    /\ UNCHANGED <<entry, tool, procs, events, closed, fileExists, outLeft,
                   cancelled, buf, call, temp>>

DirectNext ==
    \/ BufferedNext
    \/ HandleDirectDownload

DirectSpec == BufferedInit /\ [][DirectNext]_vars

\* =====================================================================
\* Properties of the progressive request
\* =====================================================================
Order == <<"primary", "android", "ios">>
next(strategy) == IF strategy = "primary" THEN "android" ELSE "ios"

Count(type) == Cardinality({i \in DOMAIN events : events[i].type = type})
LastType == IF events = <<>> THEN "none" ELSE events[Len(events)].type

\* every spawned process has been closed and its close handler has returned
Finished == entry # "none" /\ \A p \in DOMAIN procs : procs[p].pc = "done"

\* the strategy's process failed fatally: fatal stderr signature or startup failure
FailedFatally(p) == procs[p].fatals > 0 \/ procs[p].errored

\* the strategy's process failed in any way the supervisor can observe
Failed(p) ==
    \/ FailedFatally(p)
    \/ procs[p].timedOut
    \/ procs[p].pc # "open" /\ procs[p].code # "0"
    \/ procs[p].missing \/ procs[p].statErr

Retry(p) == \E q \in DOMAIN procs :
                procs[q].parent = p /\ procs[q].strategy = next(procs[p].strategy)

NoFsFault == \A p \in DOMAIN procs : ~procs[p].fsFailed

\* C1: a stream obtained from createProgressiveDownloadStream retries: once
\* its primary process has failed fatally an android attempt has been
\* spawned for the stream, and an ios attempt once an android process has.
C1_PublicStreamRetries ==
    entry = "public" =>
        \A p \in DOMAIN procs :
            (procs[p].strategy # "ios" /\ FailedFatally(p)) => Retry(p)

\* C2: supervisor started with primary, tool fails on primary and android and
\* succeeds on ios: when everything has finished, the delivered sequence ends
\* with complete and holds exactly one complete and exactly two info events.
C2_FailFailOkCompletes ==
    (/\ entry = "supervisor"
     /\ tool["primary"] \in Retried /\ tool["android"] \in Retried /\ tool["ios"] = "ok"
     /\ NoFsFault
     /\ Finished)
    => (LastType = "complete" /\ Count("complete") = 1 /\ Count("info") = 2)

\* C3: tool fails on every strategy: the delivered sequence ends with an
\* error event, holds exactly one error event and no complete event.
C3_AllFailOneError ==
    (/\ entry = "supervisor"
     /\ \A s \in Strategies : tool[s] \in Retried
     /\ Finished)
    => (LastType = "error" /\ Count("error") = 1 /\ Count("complete") = 0)

\* C4: nothing is enqueued after a terminal event (complete or error): a
\* terminal event can only be the last event of the stream.
C4_NothingAfterTerminal ==
    \A i \in DOMAIN events :
        events[i].type \in {"complete", "error"} => i = Len(events)

\* C5: the processes of one request are spawned in the order primary,
\* android, ios, each strategy at most once.
C5_EachStrategyOnceInOrder ==
    entry = "supervisor" =>
        \A p \in DOMAIN procs : p <= Len(Order) /\ procs[p].strategy = Order[p]

\* C6: a startup failure, fatal stderr signature or timeout of primary or
\* android is surfaced as info only: the stream holds no error event unless
\* an ios process has failed (or an output file was missing or unreadable
\* after exit 0, which the claim does not cover).
C6_ErrorOnlyAfterIosFailed ==
    (entry = "supervisor" /\ Count("error") > 0) =>
        \/ \E p \in DOMAIN procs : procs[p].strategy = "ios" /\ Failed(p)
        \/ \E p \in DOMAIN procs : procs[p].missing \/ procs[p].statErr

\* C7: no progress or processing event of a process is enqueued after the
\* attempt that supersedes it has been spawned (has enqueued its start).
C7_NoProgressFromSuperseded ==
    \A i \in DOMAIN events :
        events[i].type \in {"progress", "processing"} =>
            ~ \E j \in 1..(i - 1) :
                /\ events[j].type = "start"
                /\ procs[events[j].by].parent = events[i].by

\* C8: a request never has two processes that are both neither terminated
\* nor exited.
C8_AtMostOneLiveProcess ==
    Cardinality({p \in DOMAIN procs : procs[p].os = "running"}) <= 1

\* C9: a process of primary or android that ran into the exec timeout is
\* followed, once its close has been handled, by an attempt with the next
\* strategy, and its timeout is not surfaced as an error event.
C9_TimeoutRetries ==
    entry = "supervisor" =>
        \A p \in DOMAIN procs :
            (procs[p].timedOut /\ procs[p].strategy # "ios" /\ procs[p].pc = "done")
            => (/\ Retry(p)
                /\ \A i \in DOMAIN events :
                       events[i].by = p => events[i].type # "error")

\* C10: once a close handler has found exit status 0 and no output file,
\* the stream is closed and holds an error event, and that attempt has
\* neither enqueued a complete event nor called unlink.
C10_MissingFileIsTerminalError ==
    \A p \in DOMAIN procs :
        procs[p].missing =>
            /\ closed
            /\ Count("error") > 0
            /\ \A i \in DOMAIN events :
                   events[i].by = p => events[i].type # "complete"
            /\ ~procs[p].unlinked

\* =====================================================================
\* Properties of temp files, cancellation and the buffered request
\* =====================================================================
Returned == buf.pc = "returned"

\* the download invocation failed: non-zero exit, timeout, or no output file
\* after exit 0
DownloadFailed ==
    \/ buf.outcome \in {"exit1", "timeout"}
    \/ buf.outcome = "exit0" /\ ext(buf.audioOnly) \notin buf.wrote

\* C11: once downloadVideo has returned, no file under the request's temp
\* stem is left on disk, whatever the outcome was.
C11_NoTempFileAfterRequest ==
    Returned => buf.disk = {}

\* unlink has been called by the close handler of process p
UnlinkCalled(p) == procs[p].pc = "unlink" \/ procs[p].unlinked

\* in buffered mode unlink is called at most once and only with the file
\* content read into the buffer
BufferedUnlinkAfterRead == buf.unlinks <= 1 /\ buf.readBefore

\* C12: within one progressive request unlink is called at most once, and
\* only by a close handler whose complete event is in the stream.
C12_UnlinkOnceAfterComplete ==
    /\ Cardinality({p \in DOMAIN procs : UnlinkCalled(p)}) <= 1
    /\ \A p \in DOMAIN procs :
           UnlinkCalled(p) =>
               \E i \in DOMAIN events : events[i].by = p /\ events[i].type = "complete"

\* C13: once the consumer has cancelled, a process of the request that is
\* still running stops only by being terminated: it does not run on until
\* its own exit or until the exec timeout.
C13_CancelTerminatesProcess ==
    [][cancelled =>
          \A p \in DOMAIN procs :
              (procs[p].os = "running" /\ procs'[p].os # "running") => procs'[p].killed]_vars

\* The non-empty lines of a text, in order: the maximal runs of characters
\* other than the line feed.
LineStarts(str) ==
    {i \in DOMAIN str : str[i] # "NL" /\ (i = 1 \/ str[i - 1] = "NL")}
LineEnd(str, i) ==
    CHOOSE j \in i..Len(str) :
        /\ \A k \in i..j : str[k] # "NL"
        /\ j = Len(str) \/ str[j + 1] = "NL"
NonEmptyLines(str) ==
    [k \in 1..Cardinality(LineStarts(str)) |->
        LET i == CHOOSE i \in LineStarts(str) :
                     Cardinality({j \in LineStarts(str) : j < i}) = k - 1
        IN SubSeq(str, i, LineEnd(str, i))]

\* A text without the whitespace before its first and after its last
\* character that is not whitespace.
Strip(str) ==
    LET I == {i \in DOMAIN str : str[i] \notin Whitespace} IN
    IF I = {} THEN <<>>
    ELSE SubSeq(str, CHOOSE i \in I : \A j \in I : i <= j,
                     CHOOSE i \in I : \A j \in I : i >= j)

\* the returned value is a fallback result and nothing else, with
\* directDownload = false and the given urls
FallbackResultWith(urls) ==
    /\ buf.result.buffer = {} /\ buf.result.metadata = {} /\ buf.result.error = {}
    /\ \E f \in buf.result.fallback :
           /\ buf.result.fallback = {f}
           /\ f.directDownload = FALSE
           /\ f.urls = urls

FallbackCase == Returned /\ DownloadFailed /\ buf.resolved = "exit0"

\* C14 as stated: when the download invocation failed and the resolver exited
\* 0, downloadVideo returns a fallback result only, with directDownload =
\* false and urls equal to the non-empty lines of the resolver's output.
C14_UrlsAreNonEmptyLines ==
    FallbackCase => FallbackResultWith(NonEmptyLines(buf.stdout))

\* C14 amended: ... with urls equal to the non-empty lines of the resolver's
\* output once the whitespace at the start and at the end of the whole
\* output has been removed.
C14_UrlsAreLinesOfStrippedOutput ==
    FallbackCase => FallbackResultWith(NonEmptyLines(Strip(buf.stdout)))

\* the download failed and the resolver printed two lines
C14_TwoLinesReturned ==
    /\ FallbackCase
    /\ buf.stdout = <<"a", "NL", "b">>
    /\ \E f \in buf.result.fallback : Len(f.urls) = 2

\* the message of the download failure the environment caused
DownloadFailureMessage ==
    IF buf.outcome \in {"exit1", "timeout"} THEN "Command failed"
    ELSE "Downloaded file not found after successful command execution"

\* C15: when the download invocation failed and the resolver failed too,
\* downloadVideo returns the structured error and nothing else, and its
\* details are the message of the download failure, not of the fallback's.
C15_BothFailStructuredError ==
    (Returned /\ DownloadFailed /\ buf.resolved = "exit1") =>
        /\ buf.result.buffer = {} /\ buf.result.metadata = {} /\ buf.result.fallback = {}
        /\ \E e \in buf.result.error :
               /\ buf.result.error = {e}
               /\ DOMAIN e = {"error", "details", "suggestion"}
               /\ e.details = DownloadFailureMessage
               /\ e.details # buf.fallbackError

\* the tool exited 0 without the output file and the resolver failed
C15_MissingFileThenResolverFails ==
    /\ Returned /\ buf.resolved = "exit1"
    /\ buf.outcome = "exit0" /\ ext(buf.audioOnly) \notin buf.wrote
    /\ buf.result.error # {}

\* the tool exited 0 and has written <stem>.mp4 (audioOnly false) or
\* <stem>.mp3 (audioOnly true)
WroteExpectedFile ==
    /\ buf.outcome = "exit0"
    /\ \/ ~buf.audioOnly /\ "mp4" \in buf.wrote
       \/ buf.audioOnly /\ "mp3" \in buf.wrote

\* C16: when the tool exited 0 and has written the expected file (and the
\* file system let it be read), downloadVideo returns a buffer with the
\* file's content and metadata whose fileSize is the byte size of the file
\* and whose contentType is video/mp4 without audioOnly, audio/mpeg with it.
C16_BufferedSuccess ==
    (Returned /\ WroteExpectedFile /\ ~buf.readFailed /\ ~buf.statFailed) =>
        /\ buf.result.buffer = {buf.size}
        /\ buf.result.fallback = {} /\ buf.result.error = {}
        /\ \E m \in buf.result.metadata :
               /\ buf.result.metadata = {m}
               /\ m.fileSize = buf.size
               /\ ~buf.audioOnly => m.contentType = "video/mp4"
               /\ buf.audioOnly => m.contentType = "audio/mpeg"

\* a video request whose tool wrote a 1024-byte file
C16_Video1024Returned ==
    /\ Returned /\ WroteExpectedFile /\ ~buf.audioOnly /\ buf.size = 1024
    /\ \E m \in buf.result.metadata : m.fileSize = 1024 /\ m.contentType = "video/mp4"

\* C17: a buffer is returned only when the download process exited 0, the
\* expected file was there and was read, and then it is that file's content;
\* a result without a buffer carries no metadata either.
C17_BufferOnlyAfterSuccessfulRead ==
    /\ buf.result.buffer # {} =>
           /\ WroteExpectedFile
           /\ ~buf.readFailed
           /\ buf.result.buffer = {buf.size}
    /\ buf.result.buffer = {} => buf.result.metadata = {}

\* the tool left the expected file behind but exited 1 or was killed by the
\* timeout: nothing of the file is returned
C17_PartialFileNotReturned ==
    /\ Returned
    /\ buf.outcome \in {"exit1", "timeout"}
    /\ ext(buf.audioOnly) \in buf.wrote
    /\ buf.result.buffer = {} /\ buf.result.metadata = {}

\* C18: a downloadVideo call that has not returned can still take a step:
\* no invocation of the tool leaves it waiting for ever.
C18_BufferedNeverStuck ==
    Returned \/ ENABLED BufferedNext

\* C19: every stream obtained from createProgressiveDownloadStream is
\* eventually closed, also when the tool never exits on its own.
C19_PublicStreamEventuallyClosed ==
    (entry = "public") ~> closed

\* the tool did not exit, the exec timeout killed it and the stream is closed
C19_TimedOutStreamClosed ==
    /\ entry = "public" /\ closed /\ ~cancelled
    /\ \E p \in DOMAIN procs : procs[p].timedOut /\ procs[p].pc = "done"

\* C20: when unlink fails, whether the path is still there or already gone,
\* cleanupFile returns normally: the failure is logged and downloadVideo
\* returns the buffer and the metadata it had read.
C20_CleanupFailureSwallowed ==
    (Returned /\ buf.unlinkFailed) =>
        /\ buf.warned
        /\ buf.downloadError = "none"
        /\ buf.result.buffer = buf.fileBuffer /\ buf.fileBuffer # {}
        /\ \E m \in buf.result.metadata : m.fileSize \in buf.stats
        /\ buf.result.fallback = {} /\ buf.result.error = {}

\* unlink failed on a path that was already gone, and the buffer was returned
C20_MissingPathUnlinkReturned ==
    /\ Returned /\ buf.unlinkFailed
    /\ ext(buf.audioOnly) \in buf.wrote /\ ext(buf.audioOnly) \notin buf.disk
    /\ buf.result.buffer # {}

\* in streaming mode: a close handler whose unlink failed has enqueued
\* nothing after its complete event and has closed the stream
StreamingCleanupFailureSwallowed ==
    [][\A p \in DOMAIN procs :
          (procs[p].pc = "unlink" /\ procs'[p].pc = "done") =>
              (events' = events /\ closed')]_vars

\* =====================================================================
\* Temp path stems of concurrent requests
\* =====================================================================
HexDigits == {"a", "f"}
\* uuidv4(): the hex digits of a random UUID
Uuids == [1..UuidLen -> HexDigits]

\* String.prototype.substring(0, n)
substring(str, n) == SubSeq(str, 1, IF n < Len(str) THEN n ELSE Len(str))

\* join(tmpdir(), `video_${timestamp}_${uniqueId}`)
tempFile(timestamp, uuid) == <<"video", timestamp, substring(uuid, PrefixLen)>>

TempInit ==
    /\ entry = "none"
    /\ tool = [s \in Strategies |-> "ok"]
    /\ procs = <<>>
    /\ events = <<>>
    /\ closed = FALSE
    /\ fileExists = FALSE
    /\ outLeft = MaxStdout
    /\ cancelled = FALSE
    /\ buf = Idle
    /\ res = NoResponse
    /\ call = NoCall
    /\ temp = NoTemp

\* Date.now() moves on by a millisecond
Tick ==
    /\ temp.now < MaxClock
    /\ temp' = [temp EXCEPT !.now = @ + 1]
    /\ UNCHANGED <<entry, tool, procs, events, closed, fileExists, outLeft, cancelled,
                   buf, res, call>>

\* A request starts (downloadVideo or handleProgressiveDownload): it takes
\* its stem from the clock and a fresh random UUID.  No two calls of uuidv4
\* are taken to return the same UUID.
Allocate(uuid) ==
    /\ Len(temp.requests) < MaxRequests
    /\ \A i \in DOMAIN temp.requests : temp.requests[i].uuid # uuid
    /\ temp' = [temp EXCEPT !.requests =
                   Append(@, [uuid |-> uuid, tempFile |-> tempFile(temp.now, uuid)])]
    /\ UNCHANGED <<entry, tool, procs, events, closed, fileExists, outLeft, cancelled,
                   buf, res, call>>

\* a request in flight ends
Release(i) ==
    /\ temp' = [temp EXCEPT !.requests =
                   SubSeq(@, 1, i - 1) \o SubSeq(@, i + 1, Len(@))]
    /\ UNCHANGED <<entry, tool, procs, events, closed, fileExists, outLeft, cancelled,
                   buf, res, call>>

TempNext ==
    \/ Tick
    \/ \E uuid \in Uuids : Allocate(uuid)
    \/ \E i \in DOMAIN temp.requests : Release(i)

TempSpec == TempInit /\ [][TempNext]_vars

\* C21: the temp path stems of any two requests in flight at the same time
\* are distinct.
C21_StemsOfConcurrentRequestsDistinct ==
    \A i, j \in DOMAIN temp.requests :
        i # j => temp.requests[i].tempFile # temp.requests[j].tempFile

\* =====================================================================
\* The response of a progressive request
\* =====================================================================
\* variant: the pump writes the newest chunk of the queue
PumpNewest ==
    /\ ~res.ended /\ ~cancelled
    /\ Len(res.written) < Len(events)
    /\ res' = [res EXCEPT !.written = Append(@, events[Len(events)])]
    /\ UNCHANGED <<entry, tool, procs, events, closed, fileExists, outLeft, cancelled,
                   buf, call, temp>>

\* pump: const { done, value } = await reader.read(); res.write(value).
\* The reader hands out the chunks of the stream's queue in order, also the
\* ones still queued when the controller was closed.
Pump ==
    /\ ~res.ended /\ ~cancelled
    /\ Len(res.written) < Len(events)
    /\ res' = [res EXCEPT !.written = Append(@, events[Len(@) + 1])]
    /\ UNCHANGED <<entry, tool, procs, events, closed, fileExists, outLeft, cancelled,
                   buf, call, temp>>

\* pump: read() reports done (the stream is closed and its queue is empty,
\* or the reader was cancelled): break, and res.end() in the finally block
PumpDone ==
    /\ ~res.ended
    /\ closed
    /\ cancelled \/ Len(res.written) = Len(events)
    /\ res' = [res EXCEPT !.ended = TRUE]
    /\ UNCHANGED <<entry, tool, procs, events, closed, fileExists, outLeft, cancelled,
                   buf, call, temp>>

ResponseNext ==
    \/ CancelNext
    \/ Pump
    \/ PumpDone

ResponseSpec == Init /\ [][ResponseNext]_vars

IsPrefix(s, t) == Len(s) <= Len(t) /\ SubSeq(t, 1, Len(s)) = s

\* C22: what has been written to the response is at every moment the
\* beginning of the sequence of enqueued events, and all of it once the
\* response has ended without a disconnect; the handlers only ever add
\* events at the end of the sequence, and the response grows by the next
\* event of the sequence only.
C22_ResponseFollowsEmissionOrder ==
    /\ [](IsPrefix(res.written, events))
    /\ []((res.ended /\ ~cancelled) => res.written = events)
    /\ [][/\ IsPrefix(events, events')
          /\ IsPrefix(res.written, res'.written)
          /\ Len(res'.written) <= Len(res.written) + 1]_vars

\* a download that ran to the end: start, progress, processing and complete
\* were enqueued and written in that order
C22_WholeStreamWritten ==
    /\ res.ended /\ ~cancelled
    /\ Len(res.written) >= 4
    /\ res.written = events
    /\ res.written[1].type = "start"
    /\ res.written[Len(res.written)].type = "complete"

\* C23: as soon as a progressive request has started, the first event of
\* its stream is a start event with progress 0; and every event enqueued
\* through the handlers of a process comes after the start event enqueued
\* when that process was spawned.
C23_StartIsFirst ==
    /\ entry # "none" =>
           /\ events # <<>>
           /\ events[1].type = "start" /\ events[1].progress = {0}
    /\ \A i \in DOMAIN events :
           \E j \in 1..i :
               /\ events[j].by = events[i].by
               /\ events[j].type = "start" /\ events[j].progress = {0}
               /\ \A k \in 1..(j - 1) : events[k].by # events[i].by

\* a progress event follows the start event of a public stream
C23_StartThenProgress ==
    /\ entry = "public"
    /\ Len(events) >= 2
    /\ events[1].type = "start"
    /\ events[2].type = "progress"

\* ---------------------------------------------------------------------
\* The parsers of the tool's output.  Text is a sequence of characters;
\* call holds the last parser call: its input and what it returned.
\* ---------------------------------------------------------------------

digitValue ==
    ("0" :> 0) @@ ("1" :> 1) @@ ("2" :> 2) @@ ("3" :> 3) @@ ("4" :> 4)
    @@ ("5" :> 5) @@ ("6" :> 6) @@ ("7" :> 7) @@ ("8" :> 8) @@ ("9" :> 9)

Digits == DOMAIN digitValue

\* the integer a run of decimal digits denotes
RECURSIVE digitsValue(_)
digitsValue(ds) ==
    IF ds = <<>> THEN 0
    ELSE 10 * digitsValue(SubSeq(ds, 1, Len(ds) - 1)) + digitValue[ds[Len(ds)]]

\* \d* from position i: the position after the run of digits
RECURSIVE skipDigits(_, _)
skipDigits(str, i) ==
    IF i <= Len(str) /\ str[i] \in Digits THEN skipDigits(str, i + 1) ELSE i

\* the position of the first "." of str, Len(str) + 1 when it has none
RECURSIVE indexOfPoint(_, _)
indexOfPoint(str, i) ==
    IF i > Len(str) \/ str[i] = "." THEN i ELSE indexOfPoint(str, i + 1)

\* a fraction without its trailing zeros
RECURSIVE dropTrailingZeros(_)
dropTrailingZeros(ds) ==
    IF ds # <<>> /\ ds[Len(ds)] = "0"
    THEN dropTrailingZeros(SubSeq(ds, 1, Len(ds) - 1))
    ELSE ds

\* parseFloat of a numeral \d+\.?\d* : the number mant / 10^dec
parseFloat(str) ==
    LET p    == indexOfPoint(str, 1)
        int  == SubSeq(str, 1, p - 1)
        frac == dropTrailingZeros(SubSeq(str, p + 1, Len(str)))
    IN  [mant |-> digitsValue(int \o frac), dec |-> Len(frac)]

\* /(\d+\.?\d*)([KMGT]?i?B)/ tried at position i: <<match[1], match[2]>>, or
\* <<>> when the pattern does not match there.  Every quantifier is greedy and
\* none can give a character back to what follows it, so one pass decides.
matchSizeAt(str, i) ==
    LET a == skipDigits(str, i)
        b == IF a <= Len(str) /\ str[a] = "." THEN a + 1 ELSE a
        c == skipDigits(str, b)
        d == IF c <= Len(str) /\ str[c] \in {"K", "M", "G", "T"} THEN c + 1 ELSE c
        e == IF d <= Len(str) /\ str[d] = "i" THEN d + 1 ELSE d
    IN  IF a > i /\ e <= Len(str) /\ str[e] = "B"
        THEN <<SubSeq(str, i, c - 1), SubSeq(str, c, e)>>
        ELSE <<>>

\* sizeStr.match(...): the leftmost match, <<>> for null
RECURSIVE matchSizeFrom(_, _)
matchSizeFrom(str, i) ==
    IF i > Len(str) THEN <<>>
    ELSE IF matchSizeAt(str, i) # <<>> THEN matchSizeAt(str, i)
    ELSE matchSizeFrom(str, i + 1)

\* the multipliers table; a multiplier is the sequence of its written factors
multipliers ==
    (<<"B">> :> <<1>>)
    @@ (<<"K", "i", "B">> :> <<1024>>)
    @@ (<<"M", "i", "B">> :> <<1024, 1024>>)
    @@ (<<"G", "i", "B">> :> <<1024, 1024, 1024>>)
    @@ (<<"T", "i", "B">> :> <<1024, 1024, 1024, 1024>>)
    @@ (<<"K", "B">> :> <<1000>>)
    @@ (<<"M", "B">> :> <<1000, 1000>>)
    @@ (<<"G", "B">> :> <<1000, 1000, 1000>>)
    @@ (<<"T", "B">> :> <<1000, 1000, 1000, 1000>>)

\* the number 0
Zero == [mant |-> 0, dec |-> 0, factor |-> <<>>]

\* value * multiplier: the number mant * (product of factor) / 10^dec,
\* kept as its parts (the product of four factors exceeds the integers of
\* the checker); factors of 1 are dropped and every zero is Zero
times(value, multiplier) ==
    IF value.mant = 0 THEN Zero
    ELSE [mant |-> value.mant, dec |-> value.dec,
          factor |-> SelectSeq(multiplier, LAMBDA f : f # 1)]

parseFileSize(sizeStr) ==
    LET match == matchSizeFrom(sizeStr, 1)
    IN  IF match = <<>> THEN Zero
        ELSE LET value == parseFloat(match[1])
                 unit  == match[2]
             IN  times(value,
                       IF unit \in DOMAIN multipliers
                       THEN multipliers[unit] ELSE <<1>>)

\* the size tokens tried: a numeral followed by a unit, and text without
\* a numeral
IntParts  == {<<d>> : d \in {"0", "1", "2", "5"}} \cup {<<"1", "0">>, <<"1", "5">>}
Fractions == {<<>>, <<".">>, <<".", "5">>, <<".", "0", "0">>}
Numerals  == {n \o f : n \in IntParts, f \in Fractions}
KnownUnits == DOMAIN multipliers
OtherUnits == {<<"i", "B">>, <<"P", "B">>, <<"k", "B">>, <<"P", "i", "B">>}
Garbage   == {<<>>, <<"g", "a", "r", "b", "a", "g", "e">>, <<"M", "i", "B">>}

RECURSIVE Pow10(_)
Pow10(n) == IF n = 0 THEN 1 ELSE 10 * Pow10(n - 1)

\* the number n
Num(n) == [mant |-> n, dec |-> 0]

\* variant: the percentage is passed on as parsed
minUnclamped(progress, limit) == progress

\* Math.min(progress, limit) for a whole limit
min(progress, limit) ==
    IF progress.mant > limit * Pow10(progress.dec) THEN Num(limit) ELSE progress

\* line.includes(marker); the markers [download], [ffmpeg] and Merging are
\* single symbols of a text
includes(line, marker) == \E i \in DOMAIN line : line[i] = marker

\* /(\d+\.?\d*)%/ tried at position i: <<match[1]>>, or <<>>
matchPercentAt(str, i) ==
    LET a == skipDigits(str, i)
        b == IF a <= Len(str) /\ str[a] = "." THEN a + 1 ELSE a
        c == skipDigits(str, b)
    IN  IF a > i /\ c <= Len(str) /\ str[c] = "%"
        THEN <<SubSeq(str, i, c - 1)>>
        ELSE <<>>

\* line.match(/(\d+\.?\d*)%/): the leftmost match, <<>> for null
RECURSIVE matchPercentFrom(_, _)
matchPercentFrom(str, i) ==
    IF i > Len(str) THEN <<>>
    ELSE IF matchPercentAt(str, i) # <<>> THEN matchPercentAt(str, i)
    ELSE matchPercentFrom(str, i + 1)

\* /(\d+\.?\d*[KMGT]?iB)/ tried at position i: the position of the last
\* character of the match, 0 when the pattern does not match there
sizeEndAt(str, i) ==
    LET a == skipDigits(str, i)
        b == IF a <= Len(str) /\ str[a] = "." THEN a + 1 ELSE a
        c == skipDigits(str, b)
        d == IF c <= Len(str) /\ str[c] \in {"K", "M", "G", "T"} THEN c + 1 ELSE c
    IN  IF a > i /\ d + 1 <= Len(str) /\ str[d] = "i" /\ str[d + 1] = "B"
        THEN d + 1
        ELSE 0

\* line.match(/(\d+\.?\d*[KMGT]?iB)/g): all matches from left to right, each
\* search starting after the match before it; <<>> for null
RECURSIVE matchSizesFrom(_, _)
matchSizesFrom(str, i) ==
    IF i > Len(str) THEN <<>>
    ELSE IF sizeEndAt(str, i) > 0
    THEN <<SubSeq(str, i, sizeEndAt(str, i))>>
         \o matchSizesFrom(str, sizeEndAt(str, i) + 1)
    ELSE matchSizesFrom(str, i + 1)

\* what one line of a chunk enqueues
parseProgressLine(line) ==
    LET progressMatch == matchPercentFrom(line, 1)
        sizeMatch     == matchSizesFrom(line, 1)
        progress      == parseFloat(progressMatch[1])
        sized         == Len(sizeMatch) >= 2
    IN  (IF includes(line, "[download]") /\ includes(line, "%")
            /\ progressMatch # <<>>
         THEN <<[type |-> "progress",
                 progress |-> min(progress, 100),
                 downloadedSize |-> IF sized THEN parseFileSize(sizeMatch[1]) ELSE Zero,
                 totalSize |-> IF sized THEN parseFileSize(sizeMatch[2]) ELSE Zero]>>
         ELSE <<>>)
        \o (IF includes(line, "[ffmpeg]") \/ includes(line, "Merging")
            THEN <<[type |-> "processing", progress |-> Num(95)]>>
            ELSE <<>>)

RECURSIVE parseProgressLines(_)
parseProgressLines(lines) ==
    IF lines = <<>> THEN <<>>
    ELSE parseProgressLine(Head(lines)) \o parseProgressLines(Tail(lines))

\* parseProgressOutput on the text of a chunk: the updates it hands to
\* safeEnqueue, in order
parseProgressText(output) == parseProgressLines(split(output))

\* the chunks tried: every text of up to MaxChunk of these symbols, and
\* three lines the tool prints
ChunkSymbols == {"[download]", "[ffmpeg]", "Merging", "%", ".", "1", "0", "NL"}
Chunks == UNION {[1..n -> ChunkSymbols] : n \in 0..MaxChunk}
ProgressLine425 ==
    <<"[download]", " ", " ", "4", "2", ".", "5", "%", " ", "o", "f", " ",
      "1", "0", ".", "0", "0", "M", "i", "B", " ", "a", "t", " ",
      "1", ".", "0", "0", "M", "i", "B", "/", "s">>
PrintedChunks ==
    {ProgressLine425,
     <<"[download]", " ", "1", "0", "0", ".", "1", "%">>,
     <<"[download]", " ", "1", "0", "0", "%", "NL",
       "[ffmpeg]", " ", "Merging", "NL">>}

ParserInit ==
    /\ entry = "none"
    /\ tool = [s \in Strategies |-> "ok"]
    /\ procs = <<>>
    /\ events = <<>>
    /\ closed = FALSE
    /\ fileExists = FALSE
    /\ outLeft = MaxStdout
    /\ cancelled = FALSE
    /\ buf = Idle
    /\ res = NoResponse
    /\ call = NoCall
    /\ temp = NoTemp

\* the inputs the next call is drawn from: none while a call is in progress
Inputs(S) == IF call = NoCall THEN S ELSE {}

\* the caller takes the result of the call
Return ==
    /\ call # NoCall
    /\ call' = NoCall
    /\ UNCHANGED <<entry, tool, procs, events, closed, fileExists, outLeft,
                   cancelled, buf, res, temp>>

ParseFileSize(number, unit) ==
    /\ call = NoCall
    /\ call' = [fn |-> "parseFileSize", number |-> number, unit |-> unit,
                in |-> number \o unit, out |-> parseFileSize(number \o unit)]
    /\ UNCHANGED <<entry, tool, procs, events, closed, fileExists, outLeft,
                   cancelled, buf, res, temp>>

\* A chunk of the tool's error output is a sequence of words; the words
\* the classification looks for are "error" and "warning", in three
\* spellings each.
StderrWords == {"error", "Error", "ERROR", "warning", "Warning", "WARNING", "x"}
StderrTexts == UNION {[1..n -> StderrWords] : n \in 0..MaxWords}

\* String.prototype.toLowerCase
toLowerCase(text) ==
    [i \in DOMAIN text |->
        IF text[i] \in {"Error", "ERROR"} THEN "error"
        ELSE IF text[i] \in {"Warning", "WARNING"} THEN "warning"
        ELSE text[i]]

\* the chunk record of the stderr handlers for a text: whether the lowered
\* text includes 'error', and whether the text includes 'warning' as written
\* ("lower"), in another spelling only ("upper"), or not at all
stderrChunk(errorOutput) ==
    [error |-> includes(toLowerCase(errorOutput), "error"),
     warning |-> IF includes(errorOutput, "warning") THEN "lower"
                 ELSE IF includes(toLowerCase(errorOutput), "warning") THEN "upper"
                 ELSE "none"]

\* the stderr handler decides whether a chunk is a critical error
ClassifyStderr(errorOutput) ==
    /\ call = NoCall
    /\ call' = [fn |-> "stderr", in |-> errorOutput,
                out |-> isCriticalError(stderrChunk(errorOutput))]
    /\ UNCHANGED <<entry, tool, procs, events, closed, fileExists, outLeft,
                   cancelled, buf, res, temp>>

\* the stdout handler runs once for each chunk of the tool's output and
\* hands the chunk to parseProgressOutput: a text that arrives cut after
\* its first cut symbols
Texts == UNION {[1..n -> ChunkSymbols] : n \in 0..MaxText}
StdoutInTwoChunks(text, cut) ==
    /\ call = NoCall
    /\ cut \in 0..Len(text)
    /\ call' = [fn |-> "stdout", in |-> text, cut |-> cut,
                out |-> parseProgressText(SubSeq(text, 1, cut))
                        \o parseProgressText(SubSeq(text, cut + 1, Len(text)))]
    /\ UNCHANGED <<entry, tool, procs, events, closed, fileExists, outLeft,
                   cancelled, buf, res, temp>>

\* a progress line as the tool prints it, '[download]  P% of TOTAL at
\* SPEED/s', and the same line without its sizes, '[download]  P%'
SizeTokens ==
    {<<"1", "0", ".", "0", "0", "M", "i", "B">>,
     <<"1", ".", "0", "0", "M", "i", "B">>,
     <<"5", "1", "2", ".", "0", "0", "K", "i", "B">>}
PercentTokens == {<<"4", "2", ".", "5">>, <<"1", "0", "0">>, <<"0", ".", "0">>}
toolLine(percent, total, speed) ==
    <<"[download]", " ", " ">> \o percent \o <<"%">>
    \o (IF total = <<>> THEN <<>>
        ELSE <<" ", "o", "f", " ">> \o total \o <<" ", "a", "t", " ">>
             \o speed \o <<"/", "s">>)

\* parseProgressOutput for one printed progress line
ParseToolLine(percent, total, speed) ==
    /\ call = NoCall
    /\ (total = <<>>) = (speed = <<>>)
    /\ call' = [fn |-> "toolLine", percent |-> percent, total |-> total,
                speed |-> speed, in |-> toolLine(percent, total, speed),
                out |-> parseProgressText(toolLine(percent, total, speed))]
    /\ UNCHANGED <<entry, tool, procs, events, closed, fileExists, outLeft,
                   cancelled, buf, res, temp>>

ParseProgressOutput(output) ==
    /\ call = NoCall
    /\ call' = [fn |-> "parseProgressOutput", in |-> output,
                out |-> parseProgressText(output)]
    /\ UNCHANGED <<entry, tool, procs, events, closed, fileExists, outLeft,
                   cancelled, buf, res, temp>>

ParserNext ==
    \/ \E number \in Inputs(Numerals) : \E unit \in KnownUnits \cup OtherUnits \cup {<<>>} :
           ParseFileSize(number, unit)
    \/ \E text \in Inputs(Garbage) : ParseFileSize(<<>>, text)
    \/ \E output \in Inputs(Chunks \cup PrintedChunks) : ParseProgressOutput(output)
    \/ \E errorOutput \in Inputs(StderrTexts) : ClassifyStderr(errorOutput)
    \/ \E text \in Inputs(Texts) : \E cut \in 0..MaxText : StdoutInTwoChunks(text, cut)
    \/ \E percent \in Inputs(PercentTokens) :
           \E total, speed \in SizeTokens \cup {<<>>} :
               ParseToolLine(percent, total, speed)
    \/ Return

ParserSpec == ParserInit /\ [][ParserNext]_vars

\* the factor the unit of a size token stands for: 1024^k for the binary
\* and 1000^k for the decimal prefix number k of K, M, G, T; 1 otherwise
PrefixRank(c) == IF c = "K" THEN 1 ELSE IF c = "M" THEN 2 ELSE IF c = "G" THEN 3 ELSE 4

UnitFactor(unit) ==
    IF Len(unit) = 3 /\ unit[1] \in {"K", "M", "G", "T"} /\ unit[2] = "i" /\ unit[3] = "B"
    THEN [k \in 1..PrefixRank(unit[1]) |-> 1024]
    ELSE IF Len(unit) = 2 /\ unit[1] \in {"K", "M", "G", "T"} /\ unit[2] = "B"
    THEN [k \in 1..PrefixRank(unit[1]) |-> 1000]
    ELSE <<>>

RECURSIVE Product(_)
Product(fs) == IF fs = <<>> THEN 1 ELSE fs[1] * Product(Tail(fs))

\* a result is the integer n
IsInteger(r, n) == r.mant * Product(r.factor) = n * Pow10(r.dec)

\* C24: a size token <number><unit> parses to number x factor, the factor
\* being 1024^k or 1000^k for the known prefixes and 1 for B or an unknown
\* unit; a token without a number-unit pair parses to 0; "1.5MiB" is
\* 1572864, "2GB" is 2000000000 and "garbage" is 0.
C24_ParseFileSizeContract ==
    call.fn = "parseFileSize" =>
        /\ (call.number # <<>> /\ call.unit # <<>>) =>
               call.out = times(parseFloat(call.number), UnitFactor(call.unit))
        /\ (call.number = <<>> \/ call.unit = <<>>) => call.out = Zero
        /\ call.in = <<"1", ".", "5", "M", "i", "B">> => IsInteger(call.out, 1572864)
        /\ call.in = <<"2", "G", "B">> => IsInteger(call.out, 2000000000)
        /\ call.in = <<"g", "a", "r", "b", "a", "g", "e">> => IsInteger(call.out, 0)

\* the percentages of a line: a numeral directly followed by the percent
\* sign, as <<first, last>> positions of the numeral
IsNumeral(str) ==
    /\ str # <<>> /\ str[1] \in Digits
    /\ \A i \in DOMAIN str : str[i] \in Digits \cup {"."}
    /\ Cardinality({i \in DOMAIN str : str[i] = "."}) <= 1
Percentages(line) ==
    {ij \in (DOMAIN line) \X (DOMAIN line) :
        /\ ij[1] <= ij[2] /\ ij[2] < Len(line)
        /\ IsNumeral(SubSeq(line, ij[1], ij[2]))
        /\ line[ij[2] + 1] = "%"}
\* the value of the first of them, at most 100
ClampedPercentage(line) ==
    LET ij == CHOOSE ij \in Percentages(line) :
                  \A kl \in Percentages(line) : ij[1] <= kl[1]
        v  == parseFloat(SubSeq(line, ij[1], ij[2]))
    IN  IF v.mant > 100 * Pow10(v.dec) THEN Num(100) ELSE v

HasMarker(line, marker) == \E i \in DOMAIN line : line[i] = marker
IsProgressLine(line) == HasMarker(line, "[download]") /\ Percentages(line) # {}
IsMergeLine(line) == HasMarker(line, "[ffmpeg]") \/ HasMarker(line, "Merging")

OfType(evs, type) == SelectSeq(evs, LAMBDA e : e.type = type)

\* C25: the progress events of a chunk are, in order, one for each of its
\* lines that carries the download marker and a percentage, with that
\* percentage clamped to 100 as progress; every other event comes from a
\* line with a merge marker, so a line with neither marker yields none; the
\* line "[download]  42.5% of 10.00MiB at 1.00MiB/s" yields one progress
\* event with progress 42.5 and nothing else.
C25_ProgressEventPerProgressLine ==
    call.fn = "parseProgressOutput" =>
        LET lines    == NonEmptyLines(call.in)
            progress == SelectSeq(lines, IsProgressLine)
            merge    == SelectSeq(lines, IsMergeLine)
            evs      == OfType(call.out, "progress")
        IN  /\ Len(evs) = Len(progress)
            /\ \A k \in DOMAIN evs :
                   evs[k].progress = ClampedPercentage(progress[k])
            /\ Len(call.out) = Len(progress) + Len(merge)
            /\ call.in = ProgressLine425 =>
                   /\ Len(call.out) = 1
                   /\ call.out[1].type = "progress"
                   /\ call.out[1].progress = [mant |-> 425, dec |-> 1]

\* the printed progress line has been parsed
C25_Line425Parsed ==
    /\ call.fn = "parseProgressOutput"
    /\ call.in = ProgressLine425
    /\ Len(call.out) = 1
    /\ call.out[1].progress = [mant |-> 425, dec |-> 1]

\* ---------------------------------------------------------------------
\* The command lines.  A command is a sequence of symbols: "SP" a space,
\* "DQ" a double quote, "SEMI" a semicolon, and any other symbol a piece of
\* text without a space or a double quote outside of quotes.  A URL is a
\* sequence of the same symbols.
\* ---------------------------------------------------------------------

Qualities == {"0", "144", "240", "360", "480", "720", "1080", "1440", "2160"}
UrlSymbols == {"u", "DQ", "SP", "SEMI"}
Urls == UNION {[1..n -> UrlSymbols] : n \in 0..MaxUrl}

\* Array.prototype.join(' ')
RECURSIVE join(_)
join(options) ==
    IF options = <<>> THEN <<>>
    ELSE IF Len(options) = 1 THEN options[1]
    ELSE options[1] \o <<"SP">> \o join(Tail(options))

\* an option without a value, and an option with a value in double quotes
flag(name) == <<name>>
quoted(name, value) == <<name, "SP", "DQ", value, "DQ">>

\* the header and retry options buildDownloadCommand and buildProgressCommand share
antiDetectionOptions ==
    <<flag("--no-check-certificate"),
      quoted("--user-agent", "Mozilla/5.0 (Windows NT 10.0; Win64; x64) AppleWebKit/537.36 (KHTML, like Gecko) Chrome/120.0.0.0 Safari/537.36"),
      quoted("--referer", "https://www.youtube.com/"),
      quoted("--add-header", "Accept:text/html,application/xhtml+xml,application/xml;q=0.9,image/avif,image/webp,image/apng,*/*;q=0.8"),
      quoted("--add-header", "Accept-Language:en-US,en;q=0.9"),
      quoted("--add-header", "Accept-Encoding:gzip, deflate, br"),
      quoted("--add-header", "DNT:1"),
      quoted("--add-header", "Connection:keep-alive"),
      quoted("--add-header", "Upgrade-Insecure-Requests:1"),
      quoted("--add-header", "Sec-Fetch-Dest:document"),
      quoted("--add-header", "Sec-Fetch-Mode:navigate"),
      quoted("--add-header", "Sec-Fetch-Site:none"),
      quoted("--add-header", "Sec-Fetch-User:?1"),
      quoted("--add-header", "Cache-Control:max-age=0"),
      <<"--extractor-retries", "SP", "10">>,
      <<"--fragment-retries", "SP", "10">>,
      <<"--retry-sleep", "SP", "3">>,
      <<"--socket-timeout", "SP", "60">>,
      <<"--sleep-interval", "SP", "1">>,
      <<"--max-sleep-interval", "SP", "5">>,
      quoted("--extractor-args", "youtube:player_client=web,mweb,android,ios;comment_sort=top;max_comments=0"),
      flag("--geo-bypass")>>

\* `yt-dlp ${baseOptions} -f "bestaudio/best" --extract-audio --audio-format
\* mp3 --audio-quality 0 -o "${tempFile}.%(ext)s" "${url}"`
audioCommand(baseOptions, url, stem) ==
    <<"yt-dlp", "SP">> \o baseOptions \o <<"SP">>
    \o <<"-f", "SP", "DQ", "bestaudio/best", "DQ", "SP">>
    \o <<"--extract-audio", "SP", "--audio-format", "SP", "mp3", "SP",
         "--audio-quality", "SP", "0", "SP">>
    \o <<"-o", "SP", "DQ", stem, ".%(ext)s", "DQ", "SP">>
    \o <<"DQ">> \o url \o <<"DQ">>

\* `yt-dlp ${baseOptions} -f "${format}" --merge-output-format mp4
\* -o "${tempFile}.%(ext)s" "${url}"`
videoCommand(baseOptions, format, url, stem) ==
    <<"yt-dlp", "SP">> \o baseOptions \o <<"SP">>
    \o <<"-f", "SP", "DQ">> \o format \o <<"DQ", "SP">>
    \o <<"--merge-output-format", "SP", "mp4", "SP">>
    \o <<"-o", "SP", "DQ", stem, ".%(ext)s", "DQ", "SP">>
    \o <<"DQ">> \o url \o <<"DQ">>

\* "bestvideo[height<=${quality}][ext=mp4]+bestaudio[ext=m4a]/
\*  bestvideo[height<=${quality}]+bestaudio/best[height<=${quality}]"
mp4Format(quality) ==
    <<"bestvideo[height<=", quality, "][ext=mp4]+bestaudio[ext=m4a]/bestvideo[height<=",
      quality, "]+bestaudio/best[height<=", quality, "]">>

\* variant: the last alternative is bounded by 720
clientFormat720(quality) ==
    <<"bestvideo[height<=", quality, "]+bestaudio/best[height<=", "720", "]">>

\* "bestvideo[height<=${quality}]+bestaudio/best[height<=${quality}]"
clientFormat(quality) ==
    <<"bestvideo[height<=", quality, "]+bestaudio/best[height<=", quality, "]">>

buildDownloadCommand(url, quality, audioOnly, stem) ==
    LET baseOptions == join(antiDetectionOptions \o <<flag("--no-warnings")>>)
    IN  IF audioOnly THEN audioCommand(baseOptions, url, stem)
        ELSE videoCommand(baseOptions, mp4Format(quality), url, stem)

buildProgressCommand(url, quality, audioOnly, stem) ==
    LET baseOptions ==
            join(antiDetectionOptions
                 \o <<flag("--progress"), flag("--newline"), flag("--no-warnings")>>)
    IN  IF audioOnly THEN audioCommand(baseOptions, url, stem)
        ELSE videoCommand(baseOptions, mp4Format(quality), url, stem)

clientOptions(client) ==
    join(<<flag("--no-check-certificate"),
           quoted("--extractor-args", client),
           flag("--progress"), flag("--newline"), flag("--no-warnings")>>)

buildAndroidProgressCommand(url, quality, audioOnly, stem) ==
    LET baseOptions == clientOptions("youtube:player_client=android")
    IN  IF audioOnly THEN audioCommand(baseOptions, url, stem)
        ELSE videoCommand(baseOptions, clientFormat(quality), url, stem)

buildIOSProgressCommand(url, quality, audioOnly, stem) ==
    LET baseOptions == clientOptions("youtube:player_client=ios")
    IN  IF audioOnly THEN audioCommand(baseOptions, url, stem)
        ELSE videoCommand(baseOptions, clientFormat(quality), url, stem)

\* the command of a request: downloadVideo builds the buffered one,
\* attemptProgressiveDownload the one of its strategy
Modes == {"buffered"} \cup Strategies
buildCommand(mode, url, quality, audioOnly, stem) ==
    IF mode = "buffered" THEN buildDownloadCommand(url, quality, audioOnly, stem)
    ELSE IF mode = "android" THEN buildAndroidProgressCommand(url, quality, audioOnly, stem)
    ELSE IF mode = "ios" THEN buildIOSProgressCommand(url, quality, audioOnly, stem)
    ELSE buildProgressCommand(url, quality, audioOnly, stem)

\* What the shell that exec starts makes of a command: a double quote opens
\* or closes a quoted stretch and makes a word of what it is part of; outside
\* of quotes a space ends a word and a semicolon ends a command; at the end
\* of the text an open quote, and a semicolon without a command before it,
\* are syntax errors and nothing is run.  The result is the sequence of
\* commands run, each the sequence of its words.
endWord(l) ==
    IF l.started
    THEN [l EXCEPT !.words = Append(@, l.word), !.word = <<>>, !.started = FALSE]
    ELSE l
endCommand(l) ==
    LET m == endWord(l)
    IN  IF m.words = <<>> THEN [m EXCEPT !.error = TRUE]
        ELSE [m EXCEPT !.commands = Append(@, m.words), !.words = <<>>]
lexSymbol(l, c) ==
    IF c = "DQ" THEN [l EXCEPT !.inQuotes = ~@, !.started = TRUE]
    ELSE IF ~l.inQuotes /\ c = "SP" THEN endWord(l)
    ELSE IF ~l.inQuotes /\ c = "SEMI" THEN endCommand(l)
    ELSE [l EXCEPT !.word = Append(@, c), !.started = TRUE]
\* the symbols lo..hi of the command read, one half after the other
RECURSIVE lex(_, _, _, _)
lex(command, lo, hi, l) ==
    IF l.error \/ lo > hi THEN l
    ELSE IF lo = hi THEN lexSymbol(l, command[lo])
    ELSE LET mid == (lo + hi) \div 2
         IN  lex(command, mid + 1, hi, lex(command, lo, mid, l))
sh(command) ==
    LET l == lex(command, 1, Len(command),
                 [inQuotes |-> FALSE, word |-> <<>>, started |-> FALSE,
                  words |-> <<>>, commands |-> <<>>, error |-> FALSE])
        m == IF endWord(l).words = <<>> THEN endWord(l) ELSE endCommand(l)
    IN  IF l.inQuotes \/ m.error THEN <<>> ELSE m.commands

\* a request builds its command and hands it to exec; ext and contentType
\* as downloadVideo and handleProgressComplete derive them
CommandInit == ParserInit

RunCommand(mode, url, quality, audioOnly) ==
    LET command == buildCommand(mode, url, quality, audioOnly, Stem) IN
    /\ call = NoCall
    /\ call' = [fn |-> "exec", mode |-> mode, url |-> url, quality |-> quality,
                audioOnly |-> audioOnly,
                command |-> command,
                run |-> sh(command),
                ext |-> ext(audioOnly),
                contentType |-> contentType(audioOnly)]
    /\ UNCHANGED <<entry, tool, procs, events, closed, fileExists, outLeft,
                   cancelled, buf, res, temp>>

\* the requests tried: every URL at the default quality, and a plain URL
\* at every quality
Requests ==
    {[url |-> url, quality |-> "720"] : url \in Urls}
    \cup {[url |-> <<"u">>, quality |-> quality] : quality \in Qualities}

CommandNext ==
    \/ \E mode \in Modes : \E request \in Inputs(Requests) : \E audioOnly \in BOOLEAN :
           RunCommand(mode, request.url, request.quality, audioOnly)
    \/ Return

CommandSpec == CommandInit /\ [][CommandNext]_vars

\* the height bounds of a command: what follows "height<=" in it
HeightBounds(command) ==
    {command[i + 1] : i \in {k \in 1..(Len(command) - 1) :
        command[k] \in {"bestvideo[height<=",
                        "][ext=mp4]+bestaudio[ext=m4a]/bestvideo[height<=",
                        "]+bestaudio/best[height<="}}}

\* C26: the format expression of every video command, in buffered mode and
\* for each of the three strategies, has height bounds, and each of them is
\* the requested quality.
C26_HeightBoundIsQuality ==
    (call.fn = "exec" /\ ~call.audioOnly) =>
        HeightBounds(call.command) = {call.quality}

\* an iOS video command for 1080 has been built
C26_IosCommandFor1080 ==
    /\ call.fn = "exec" /\ call.mode = "ios" /\ ~call.audioOnly
    /\ call.quality = "1080"
    /\ HeightBounds(call.command) = {"1080"}

\* C27: the shell runs exactly one command, and its words are those of
\* the same request for a plain URL with the URL itself, unchanged, as the
\* last word: the program and every other argument do not depend on the
\* URL, and the URL adds no argument and no command.
C27_UrlIsOneArgument ==
    call.fn = "exec" =>
        LET plain == sh(buildCommand(call.mode, <<"u">>, call.quality,
                                     call.audioOnly, Stem))[1]
        IN  /\ Len(call.run) = 1
            /\ call.run[1] = SubSeq(plain, 1, Len(plain) - 1) \o <<call.url>>

\* a command that selects the best audio, extracts it as mp3 and bounds no height
IsAudioCommand(command) ==
    /\ \E i \in 1..(Len(command) - 4) :
           SubSeq(command, i, i + 4) = <<"-f", "SP", "DQ", "bestaudio/best", "DQ">>
    /\ \E i \in 1..(Len(command) - 4) :
           SubSeq(command, i, i + 4)
               = <<"--extract-audio", "SP", "--audio-format", "SP", "mp3">>
    /\ HeightBounds(command) = {}

\* C28: a request with quality "0" is handled as an audio-only request,
\* whatever its audioOnly flag: best-audio format selection, mp3 output
\* and the audio content type.
C28_QualityZeroIsAudioOnly ==
    (call.fn = "exec" /\ call.quality = "0") =>
        /\ IsAudioCommand(call.command)
        /\ call.ext = "mp3"
        /\ call.contentType = "audio/mpeg"

\* a text contains a word in some spelling
Contains(text, word) == \E i \in DOMAIN text : toLowerCase(text)[i] = word

\* C29: a chunk of error output is classified as fatal exactly when it
\* contains the error word and does not contain the warning word, both
\* recognised in any letter case.
C29_FatalIffErrorWithoutWarning ==
    call.fn = "stderr" =>
        (call.out <=> (Contains(call.in, "error") /\ ~Contains(call.in, "warning")))

\* C30: a step of the supervisor that moves on to the next strategy
\* enqueues the info event announcing the retry and nothing else, and a
\* stream never holds more than one start event.
C30_RetryEnqueuesInfoOnly ==
    /\ [](Count("start") <= 1)
    /\ [][(procs # <<>> /\ Len(procs') > Len(procs)) =>
              /\ Len(events') = Len(events) + 1
              /\ events'[Len(events')].type = "info"]_vars

\* C31: the events of an output text that arrives in two chunks are the
\* events of the same text arriving as one chunk, wherever it is cut.
C31_ChunkingInvariant ==
    call.fn = "stdout" => call.out = parseProgressText(call.in)

\* the whole bytes of a size
Bytes(r) == (r.mant * Product(r.factor)) \div Pow10(r.dec)

\* C32: the progress event of a printed progress line has the bytes of
\* TOTAL as totalSize and a downloadedSize that is at most totalSize; a
\* line without sizes has 0 in both.
C32_SizesOfProgressEvent ==
    call.fn = "toolLine" =>
        /\ Len(call.out) = 1
        /\ call.out[1].type = "progress"
        /\ call.total # <<>> =>
               /\ call.out[1].totalSize = parseFileSize(call.total)
               /\ Bytes(call.out[1].downloadedSize) <= Bytes(call.out[1].totalSize)
        /\ call.total = <<>> =>
               /\ call.out[1].totalSize = Zero
               /\ call.out[1].downloadedSize = Zero

\* C33: no two attempts of a request have the same temp path stem, and an
\* attempt whose tool wrote its file and exited 0 finds that file when its
\* close handler looks for it: no other attempt has taken it.
C33_OneStemPerAttempt ==
    /\ \A p, q \in DOMAIN procs : p # q => procs[p].tempFile # procs[q].tempFile
    /\ \A p \in DOMAIN procs :
           (tool[procs[p].strategy] = "ok" /\ procs[p].code = "0") => ~procs[p].missing

\* C34: a stream that the service has closed (not the consumer, by
\* cancelling) holds an event, and its last event is a complete or an
\* error event.
C34_ClosedAfterTerminalEvent ==
    (closed /\ ~cancelled) =>
        /\ events # <<>>
        /\ LastType \in {"complete", "error"}

C36_StreamOpenWhileLatestRuns ==
    (procs # <<>> /\ procs[Len(procs)].os = "running") => (closed => cancelled)

\* C37: downloadVideo is never left by a rejection; what it returns has
\* exactly one outcome - buffer together with metadata, or fallback, or
\* error - and the controller answers it on one of its three expected
\* branches.
C37_ExactlyOneOutcome ==
    /\ buf.pc \in {"idle", "exec", "read", "stat", "cleanup", "fallback", "returned"}
    /\ Returned =>
           LET r == buf.result
               file == r.buffer # {} /\ r.metadata # {}
           IN /\ (r.buffer # {}) <=> (r.metadata # {})
              /\ Cardinality({o \in {"file", "fallback", "error"} :
                                 \/ o = "file" /\ file
                                 \/ o = "fallback" /\ r.fallback # {}
                                 \/ o = "error" /\ r.error # {}}) = 1
    /\ res.ended => res.written \in {<<"file">>, <<"fallback">>, <<"error">>}

\* the file was read, stat failed, the resolver answered: the controller
\* has sent the fallback
C37_ReadThenFallbackAnswered ==
    /\ Returned /\ buf.fileBuffer # {} /\ buf.statFailed
    /\ buf.result.fallback # {}
    /\ res.ended /\ res.written = <<"fallback">>

\* C38: a fallback result returned by downloadVideo lists at least one
\* URL, and none of its URLs is the empty string.
C38_FallbackHasUrl ==
    \A f \in buf.result.fallback :
        /\ Len(f.urls) >= 1
        /\ \A i \in DOMAIN f.urls : f.urls[i] # <<>>

====
